---- MODULE Spec2Model ----
(***************************************************************************)
(* Prediction UI controller of the breast-cancer prediction page.          *)
(*                                                                         *)
(* Two script variants are modelled: static/script.js (the page that       *)
(* talks to the trained model) and templates/script.js (the demo page      *)
(* that falls back to a simulated prediction).  The variable `variant`     *)
(* says which script the page has loaded.                                  *)
(*                                                                         *)
(* The DOM is the state: the set of elements carrying the class "active",  *)
(* and the innerHTML of the two result regions.  HTML is modelled as the   *)
(* string the code builds (emoji and layout whitespace of the template     *)
(* literals are left out).  Numbers with decimals are carried as integers: *)
(* a confidence c in [0,1] is the integer 1000*c, form values are scaled   *)
(* by 1000.  Error messages of the JavaScript engine are those of V8.      *)
(***************************************************************************)
EXTENDS Integers, Sequences, FiniteSets, TLC

\* Number of form submissions of one page session.
MaxSubmits == 2

Flows == {"manual", "csv"}
Variants == {"static", "templates"}

\* ------------------------------------------------------------------------
\* JavaScript helpers

Min(a, b) == IF a <= b THEN a ELSE b

\* String.prototype.substring(a, b), 0-based, end exclusive.
Substring(s, a, b) == SubSeq(s, a + 1, Min(b, Len(s)))

\* s.includes(t)
Includes(s, t) ==
    \E i \in 0..(Len(s) - Len(t)) : SubSeq(s, i + 1, i + Len(t)) = t

StartsWith(s, t) == Len(s) >= Len(t) /\ SubSeq(s, 1, Len(t)) = t

UpperLetters == "ABCDEFGHIJKLMNOPQRSTUVWXYZ"
LowerLetters == "abcdefghijklmnopqrstuvwxyz"

\* The character of `to` at the position c has in `from`; c itself otherwise.
MapChar(c, from, to) ==
    IF \E i \in 1..Len(from) : SubSeq(from, i, i) = c
    THEN LET i == CHOOSE j \in 1..Len(from) : SubSeq(from, j, j) = c
         IN  SubSeq(to, i, i)
    ELSE c

\* The characters of s from position i on, each mapped.
RECURSIVE MapString(_, _, _, _)
MapString(s, i, from, to) ==
    IF i > Len(s) THEN ""
    ELSE MapChar(SubSeq(s, i, i), from, to) \o MapString(s, i + 1, from, to)

ToLowerCase(s) == MapString(s, 1, UpperLetters, LowerLetters)
ToUpperCase(s) == MapString(s, 1, LowerLetters, UpperLetters)

\* (t / 10).toFixed(1) for an integer number t of tenths.
TenthsStr(t) == ToString(t \div 10) \o "." \o ToString(t % 10)

\* (confidence * 100).toFixed(1), confidence carried as 1000 * confidence.
ConfidencePct(c) == TenthsStr(c)

\* ((count / n) * 100).toFixed(1): NaN for 0/0, Infinity for k/0, else the
\* percentage rounded to one decimal.
PercentStr(count, n) ==
    IF n = 0 THEN (IF count = 0 THEN "NaN" ELSE "Infinity")
    ELSE TenthsStr((2 * 1000 * count + n) \div (2 * n))

\* ------------------------------------------------------------------------
\* JSON values.  Every value is a record of the same shape; Absent marks a
\* numeric property that is undefined, NoString a string property that is.

Absent == -1
NoString == "<undefined>"

Item(p, c) == [prediction |-> p, confidence |-> c]

\* type is "null", "object" or "array"; predictions holds the elements of an
\* array value too; columns_used is the length of that array when present.
JsonValue(t, p, c, pk, ps, bc, mc) ==
    [type |-> t, prediction |-> p, confidence |-> c,
     predictionsKind |-> pk, predictions |-> ps,
     benign_count |-> bc, malignant_count |-> mc,
     original_columns |-> Absent, columns_used |-> Absent]

JsonNull == JsonValue("null", NoString, Absent, "absent", <<>>, Absent, Absent)
JsonEmptyObject == JsonValue("object", NoString, Absent, "absent", <<>>, Absent, Absent)
JsonSingle(p, c) == JsonValue("object", p, c, "absent", <<>>, Absent, Absent)
JsonBatch(ps, bc, mc) == JsonValue("object", NoString, Absent, "array", ps, bc, mc)
JsonArray(ps) == JsonValue("array", NoString, Absent, "absent", ps, Absent, Absent)

\* Response bodies the prediction service (or whatever answers) may send.
Ten == "0123456789"
Fifty == Ten \o Ten \o Ten \o Ten \o Ten
EmptyBody == ""
NotJsonBody == "{not json"
LongBody == "<html>" \o Fifty \o Fifty \o "</html>"
NullBody == "null"
EmptyObjectBody == "{}"
BenignBody == "{\"prediction\":\"Benign\",\"confidence\":0.9}"
MalignantBody == "{\"prediction\":\"MALIGNANT\"}"
FiveBody ==
    "{\"predictions\":[{\"prediction\":\"Benign\",\"confidence\":0.9},"
    \o "{\"prediction\":\"Malignant\",\"confidence\":0.8},"
    \o "{\"prediction\":\"benign\"},{\"prediction\":\"BENIGN\"},"
    \o "{\"prediction\":\"malignant\"}]}"
CountsBody ==
    "{\"predictions\":[{\"prediction\":\"Malignant\",\"confidence\":0.8},"
    \o "{\"prediction\":\"Benign\"}],\"benign_count\":1,\"malignant_count\":1,"
    \o "\"original_columns\":3,\"columns_used\":[\"radius_mean\",\"area_mean\"]}"
ZeroCountBody ==
    "{\"predictions\":[{\"prediction\":\"Benign\",\"confidence\":0.9}],"
    \o "\"benign_count\":0,\"malignant_count\":1}"
NoPredictionsBody == "{\"predictions\":[]}"
StringPredictionsBody == "{\"predictions\":\"none\"}"
ArrayBody == "[{\"prediction\":\"Benign\",\"confidence\":0.89}]"
ErrorTextBody == "model not loaded"

\* JSON.parse(text): the parsed value, or a SyntaxError.
JSONParse(text) ==
    CASE text = NullBody -> [ok |-> TRUE, value |-> JsonNull]
      [] text = EmptyObjectBody -> [ok |-> TRUE, value |-> JsonEmptyObject]
      [] text = BenignBody -> [ok |-> TRUE, value |-> JsonSingle("Benign", 900)]
      [] text = MalignantBody -> [ok |-> TRUE, value |-> JsonSingle("MALIGNANT", Absent)]
      [] text = FiveBody ->
            [ok |-> TRUE,
             value |-> JsonBatch(<<Item("Benign", 900), Item("Malignant", 800),
                                   Item("benign", Absent), Item("BENIGN", Absent),
                                   Item("malignant", Absent)>>, Absent, Absent)]
      [] text = CountsBody ->
            [ok |-> TRUE,
             value |-> [JsonBatch(<<Item("Malignant", 800), Item("Benign", Absent)>>, 1, 1)
                           EXCEPT !.original_columns = 3, !.columns_used = 2]]
      [] text = ZeroCountBody ->
            [ok |-> TRUE, value |-> JsonBatch(<<Item("Benign", 900)>>, 0, 1)]
      [] text = NoPredictionsBody ->
            [ok |-> TRUE, value |-> JsonBatch(<<>>, Absent, Absent)]
      [] text = StringPredictionsBody ->
            [ok |-> TRUE,
             value |-> JsonValue("object", NoString, Absent, "string", <<>>, Absent, Absent)]
      [] text = ArrayBody ->
            [ok |-> TRUE, value |-> JsonArray(<<Item("Benign", 890)>>)]
      [] OTHER -> [ok |-> FALSE, value |-> JsonNull]

\* ------------------------------------------------------------------------
\* Outcome of evaluating a piece of JavaScript: a thrown Error with its
\* message, or a returned value / the HTML written.

Throw(msg) == [threw |-> TRUE, message |-> msg, value |-> JsonNull, html |-> ""]
Return(v) == [threw |-> FALSE, message |-> "", value |-> v, html |-> ""]
Wrote(h) == [threw |-> FALSE, message |-> "", value |-> JsonNull, html |-> h]

\* `x || y` on a number that may be undefined: undefined and 0 are falsy.
Truthy(n) == n # Absent /\ n # 0

\* ------------------------------------------------------------------------
\* static/script.js: rendering

ErrorDiv(msg) == "<div class=\"error\">" \o msg \o "</div>"

StaticLoading(f) ==
    IF f = "manual"
    THEN "<div class=\"loading\"></div>Analyzing with trained ML model..."
    ELSE "<div class=\"loading\"></div>Processing CSV with trained ML model..."

NoFileError == ErrorDiv("No file selected")
FormatError == ErrorDiv("Unexpected response format")

\* result.confidence || 0.85
DefaultConfidence == 850

ClassName(prediction) ==
    IF ToLowerCase(prediction) = "malignant" THEN "malignant" ELSE "benign"

\* displayResult(result, container)
DisplayResult(result) ==
    IF result.type = "null"
    THEN Throw("Cannot read properties of null (reading 'prediction')")
    ELSE IF result.prediction = NoString
    THEN Throw("Cannot read properties of undefined (reading 'toLowerCase')")
    ELSE LET prediction == result.prediction
             confidence == IF Truthy(result.confidence) THEN result.confidence
                           ELSE DefaultConfidence
             className == ClassName(prediction)
             message == IF className = "malignant"
                        THEN "Please consult with a healthcare professional immediately"
                        ELSE "The tumor appears to be non-cancerous"
         IN  Wrote("<div class=\"result " \o className \o "\">"
                   \o "<h3>ML Model Prediction</h3>"
                   \o "<p><strong>" \o ToUpperCase(prediction) \o "</strong></p>"
                   \o "<p>Confidence: " \o ConfidencePct(confidence) \o "%</p>"
                   \o "<small>" \o message \o "</small></div>")

\* One table row of displayCSVResults.
CsvRow(pred, index) ==
    "<tr><td>" \o ToString(index) \o "</td><td class=\"" \o ClassName(pred.prediction)
    \o "\"><strong>" \o pred.prediction \o "</strong></td><td>"
    \o (IF Truthy(pred.confidence) THEN ConfidencePct(pred.confidence) \o "%" ELSE "N/A")
    \o "</td></tr>"

RECURSIVE CsvRows(_, _)
CsvRows(results, i) ==
    IF i > Len(results) THEN ""
    ELSE CsvRow(results[i], i) \o CsvRows(results, i + 1)

\* results.filter(r => r.prediction.toLowerCase() === label).length
CountLabel(results, label) ==
    Cardinality({i \in 1..Len(results) : ToLowerCase(results[i].prediction) = label})

\* result.benign_count || results.filter(...).length
BenignCount(result) ==
    IF Truthy(result.benign_count) THEN result.benign_count
    ELSE CountLabel(result.predictions, "benign")

\* result.malignant_count || results.filter(...).length
MalignantCount(result) ==
    IF Truthy(result.malignant_count) THEN result.malignant_count
    ELSE CountLabel(result.predictions, "malignant")

SummaryLine(label, count, n) ==
    "<p>" \o label \o ": " \o ToString(count) \o " samples ("
    \o PercentStr(count, n) \o "%)</p>"

\* displayCSVResults(result, container); called with result.predictions an array.
DisplayCSVResults(result) ==
    LET results == result.predictions
        n == Len(results)
    IN  IF \E i \in 1..n : results[i].prediction = NoString
        THEN Throw("Cannot read properties of undefined (reading 'toLowerCase')")
        ELSE Wrote("<div class=\"csv-results\"><h3>Trained ML Model Results</h3>"
                   \o "<p>Processed " \o ToString(n)
                   \o " samples using your trained model.pkl</p>"
                   \o (IF Truthy(result.original_columns) /\ result.columns_used # Absent
                       THEN "<div class=\"column-info\"><small>Original CSV had "
                            \o ToString(result.original_columns) \o " columns, used "
                            \o ToString(result.columns_used)
                            \o " required columns for prediction</small></div>"
                       ELSE "")
                   \o "<table><thead><tr><th>Sample #</th><th>Prediction</th>"
                   \o "<th>Confidence</th></tr></thead><tbody>"
                   \o CsvRows(results, 1)
                   \o "</tbody></table>"
                   \o "<div class=\"summary\"><h4>ML Model Summary</h4>"
                   \o SummaryLine("Benign", BenignCount(result), n)
                   \o SummaryLine("Malignant", MalignantCount(result), n)
                   \o "<small>Predictions made using your trained model.pkl</small></div>"
                   \o "</div>")

\* ------------------------------------------------------------------------
\* static/script.js: the handlers, from the point a promise settles

\* Length of the excerpt of an unparseable body: text.substring(0, 100).
ExcerptLen == 100

\* Fault variant of safeJsonResponse: the `if (!text)` guard is missing, so an
\* empty body reaches JSON.parse.
SafeJsonResponseNoEmptyCheck(text) ==
    LET p == JSONParse(text)
    IN  IF p.ok THEN Return(p.value)
        ELSE Throw("Invalid JSON response: " \o Substring(text, 0, ExcerptLen) \o "...")

\* safeJsonResponse(response), once response.text() has resolved with text.
SafeJsonResponse(text) ==
    IF text = "" THEN Throw("Server returned empty response")
    ELSE LET p == JSONParse(text)
         IN  IF p.ok THEN Return(p.value)
             ELSE Throw("Invalid JSON response: " \o Substring(text, 0, ExcerptLen) \o "...")

\* response.ok
ResponseOk(resp) == resp.status \in 200..299

\* catch (error) { resultDiv.innerHTML = ... error.message ... }
StaticCatch(message) == ErrorDiv("Connection error: " \o message)

\* if (!response.ok) { ... }, once response.text() has resolved with errorText.
ServerError(resp, errorText) ==
    ErrorDiv("Server Error (" \o ToString(resp.status) \o "): "
             \o (IF errorText # "" THEN errorText ELSE resp.statusText))

\* Fault variant of the cancerForm try block: the `if (!response.ok)` branch
\* is missing, so the body of an error response is parsed and rendered.
ManualTryIgnoresStatus(resp, text) ==
    LET result == SafeJsonResponse(text)
    IN  IF result.threw THEN result ELSE DisplayResult(result.value)

\* The try block of the cancerForm handler after the body read resolved.
ManualTry(resp, text) ==
    IF ~ResponseOk(resp) THEN Wrote(ServerError(resp, text))
    ELSE LET result == SafeJsonResponse(text)
         IN  IF result.threw THEN result ELSE DisplayResult(result.value)

\* The try block of the csvForm handler after the body read resolved.
CsvTry(resp, text) ==
    IF ~ResponseOk(resp) THEN Wrote(ServerError(resp, text))
    ELSE LET result == SafeJsonResponse(text)
         IN  IF result.threw THEN result
             ELSE IF result.value.type = "null"
             THEN Throw("Cannot read properties of null (reading 'total_samples')")
             ELSE IF result.value.predictionsKind = "array"
             THEN DisplayCSVResults(result.value)
             ELSE Wrote(FormatError)

\* What a handler leaves behind when it ends: the HTML it wrote last to its
\* result region (if it wrote), and whether an exception left it uncaught.
Effect(html) == [write |-> TRUE, html |-> html, escaped |-> FALSE]
Uncaught == [write |-> FALSE, html |-> "", escaped |-> TRUE]

\* Fault variant of the catch block: it renders a placeholder prediction (as
\* the demo page does) instead of the error.
StaticTryCatchSimulates(outcome) ==
    IF outcome.threw THEN Effect(DisplayResult(JsonSingle("Benign", DefaultConfidence)).html)
    ELSE Effect(outcome.html)

\* Fault variant without the catch block: an exception of the try block
\* leaves the handler and the region keeps what it showed.
StaticTryNoCatch(outcome) ==
    IF outcome.threw THEN Uncaught ELSE Effect(outcome.html)

\* try { ... } catch (error) { ... }: every exception of the try block is
\* caught and written as a connection error.
StaticTryCatch(outcome) ==
    IF outcome.threw THEN Effect(StaticCatch(outcome.message)) ELSE Effect(outcome.html)

StaticOnBody(f, resp, text) ==
    StaticTryCatch(IF f = "manual" THEN ManualTry(resp, text) ELSE CsvTry(resp, text))

\* ------------------------------------------------------------------------
\* templates/script.js: rendering and the simulated predictions

TemplatesLoading(f) ==
    IF f = "manual"
    THEN "<div class=\"loading\"></div>Analyzing data..."
    ELSE "<div class=\"loading\"></div>Processing CSV file..."

\* Math.random() * 0.3 + 0.7 and Math.random() * 0.2 + 0.75: the ends of the
\* ranges stand for the draw.
RandomConfidence == {700, 999}
SimulatedConfidence == {750, 949}

\* displayResult(result, container); rnd is the draw of Math.random() * 0.3 + 0.7.
TemplatesDisplayResult(result, rnd) ==
    IF result.type = "null"
    THEN Throw("Cannot read properties of null (reading 'prediction')")
    ELSE IF result.prediction \in {NoString, ""}
    THEN Throw("prediction.toLowerCase is not a function")
    ELSE LET prediction == result.prediction
             confidence == IF Truthy(result.confidence) THEN result.confidence ELSE rnd
             className == ClassName(prediction)
         IN  Wrote("<div class=\"result " \o className \o "\">Prediction: <strong>"
                   \o ToUpperCase(prediction) \o "</strong><br><small>Confidence: "
                   \o ConfidencePct(confidence) \o "%</small></div>")

\* (result.confidence * 100).toFixed(1): NaN when confidence is undefined.
TemplatesRow(result, index) ==
    "<tr><td>" \o ToString(index) \o "</td><td class=\"" \o ClassName(result.prediction)
    \o "\">" \o result.prediction \o "</td><td>"
    \o (IF result.confidence = Absent THEN "NaN" ELSE ConfidencePct(result.confidence))
    \o "%</td></tr>"

RECURSIVE TemplatesRows(_, _)
TemplatesRows(results, i) ==
    IF i > Len(results) THEN ""
    ELSE TemplatesRow(results[i], i) \o TemplatesRows(results, i + 1)

\* displayCSVResults(results, container): results must be an array.
TemplatesDisplayCSVResults(results) ==
    IF results.type = "null"
    THEN Throw("Cannot read properties of null (reading 'forEach')")
    ELSE IF results.type # "array"
    THEN Throw("results.forEach is not a function")
    ELSE IF \E i \in 1..Len(results.predictions) :
                results.predictions[i].prediction = NoString
    THEN Throw("Cannot read properties of undefined (reading 'toLowerCase')")
    ELSE Wrote("<div class=\"csv-results\"><h3>Prediction Results</h3>"
               \o "<table><thead><tr><th>Row</th><th>Prediction</th>"
               \o "<th>Confidence</th></tr></thead><tbody>"
               \o TemplatesRows(results.predictions, 1)
               \o "</tbody></table></div>")

\* Form contents a submission may carry (values scaled by 1000): the sample
\* record of loadSampleData, and a record of a large tumour.
SampleData == [radius_mean |-> 14127, area_mean |-> 654900, concavity_mean |-> 89]
LargeData == [radius_mean |-> 17990, area_mean |-> 1001000, concavity_mean |-> 300]
FormChoices == {SampleData, LargeData}

\* The callback of simulatePrediction; rnd is Math.random() * 0.2 + 0.75.
SimulatePrediction(data, rnd) ==
    LET score == (IF data.radius_mean > 15000 THEN 1 ELSE 0)
                 + (IF data.area_mean > 800000 THEN 1 ELSE 0)
                 + (IF data.concavity_mean > 100 THEN 1 ELSE 0)
        prediction == IF score >= 2 THEN "Malignant" ELSE "Benign"
    IN  TemplatesDisplayResult(JsonSingle(prediction, rnd), rnd).html

MockResults ==
    JsonArray(<<Item("Benign", 890), Item("Malignant", 760), Item("Benign", 920),
                Item("Benign", 840), Item("Malignant", 780)>>)

\* The callback of simulateCSVPrediction.
SimulateCSVPrediction == TemplatesDisplayCSVResults(MockResults).html

\* The try block of either templates handler after response.json() resolved
\* with the parsed value.
TemplatesTry(f, value, rnd) ==
    IF f = "manual" THEN TemplatesDisplayResult(value, rnd)
    ELSE TemplatesDisplayCSVResults(value)

\* ------------------------------------------------------------------------
\* Tabs

\* Elements of class "tab-content" (by id) and of class "tab-btn".
TabContents == {"manual", "csv"}
TabBtns == {"btn-manual", "btn-csv"}
\* Ids document.getElementById finds.
ElementIds == TabContents
\* Tab names openTab may be called with.
TabNames == TabContents \cup {"settings"}

\* openTab(evt, tabName) of static/script.js; btn is evt.currentTarget.
StaticOpenTab(act, btn, tabName) ==
    LET cleared == act \ (TabContents \cup TabBtns)
    IN  IF tabName \in ElementIds
        THEN [active |-> cleared \cup {tabName, btn}, threw |-> FALSE]
        ELSE [active |-> cleared, threw |-> FALSE]

\* openTab(evt, tabName) of templates/script.js: getElementById(...) is null
\* for an unknown id and .classList throws.
TemplatesOpenTab(act, btn, tabName) ==
    LET cleared == act \ (TabContents \cup TabBtns)
    IN  IF tabName \in ElementIds
        THEN [active |-> cleared \cup {tabName, btn}, threw |-> FALSE]
        ELSE [active |-> cleared, threw |-> TRUE]

\* ------------------------------------------------------------------------
\* The page

VARIABLES
    variant,      \* which script the page runs
    active,       \* elements carrying the class "active"
    tabThrew,     \* the last openTab call ended with an uncaught TypeError
    region,       \* innerHTML of #manualResult and #csvResult, by flow
    inflight,     \* by flow, the submit handlers suspended at an await
    timers,       \* by flow, the pending setTimeout callbacks, in firing order
    submits,      \* by flow, the number of submit events so far
    posts,        \* by flow, the number of fetch calls so far
    lastHandled,  \* by flow, the handler that ended last and what it got
    nHandled,     \* by flow, the number of handlers that have ended
    escaped       \* by flow, an exception left a submit handler uncaught

vars == <<variant, active, tabThrew, region, inflight, timers, submits, posts,
          lastHandled, nHandled, escaped>>

Response(status, statusText, body) ==
    [status |-> status, statusText |-> statusText, body |-> body]
NoResponse == Response(0, "", "")
NoData == [radius_mean |-> 0, area_mean |-> 0, concavity_mean |-> 0]

\* What POST /predict may answer.
PredictResponses ==
    {Response(200, "OK", b) :
        b \in {BenignBody, MalignantBody, EmptyBody, NotJsonBody, LongBody,
               EmptyObjectBody, NullBody}}
    \cup {Response(500, "Internal Server Error", ErrorTextBody),
          Response(404, "Not Found", EmptyBody),
          Response(500, "Internal Server Error", BenignBody)}

\* What POST /predict_csv may answer.
CsvResponses ==
    {Response(200, "OK", b) :
        b \in {FiveBody, CountsBody, ZeroCountBody, NoPredictionsBody,
               StringPredictionsBody, ArrayBody, EmptyObjectBody, NullBody,
               EmptyBody, NotJsonBody}}
    \cup {Response(400, "Bad Request", ErrorTextBody)}

Responses(f) == IF f = "manual" THEN PredictResponses ELSE CsvResponses

\* error.message of a rejected fetch and of a rejected body read.
FetchFailure == "Failed to fetch"
ReadFailure == "network error"

\* formData.get('file'): null when the form has no entry of that name, an
\* empty File (name "", size 0) when the file input has no selection, the
\* chosen File otherwise.
FileEntries == {"null", "empty", "file"}
\* !file: a File object, empty or not, is truthy.
NotFile(file) == file = "null"

Handler(seq, pc, resp, data, file) ==
    [seq |-> seq, pc |-> pc, resp |-> resp, data |-> data, file |-> file]

Handled(seq, how, resp) == [seq |-> seq, how |-> how, resp |-> resp]

Loading(f) == IF variant = "static" THEN StaticLoading(f) ELSE TemplatesLoading(f)

Init ==
    /\ variant \in Variants
    /\ active = {"manual", "btn-manual"}
    /\ tabThrew = FALSE
    /\ region = [f \in Flows |-> ""]
    /\ inflight = [f \in Flows |-> {}]
    /\ timers = [f \in Flows |-> <<>>]
    /\ submits = [f \in Flows |-> 0]
    /\ posts = [f \in Flows |-> 0]
    /\ lastHandled = [f \in Flows |-> Handled(0, "none", NoResponse)]
    /\ nHandled = [f \in Flows |-> 0]
    /\ escaped = [f \in Flows |-> FALSE]

\* A click on a tab button: openTab(event, tabName).
OpenTab(btn, tabName) ==
    LET r == IF variant = "static" THEN StaticOpenTab(active, btn, tabName)
             ELSE TemplatesOpenTab(active, btn, tabName)
    IN  /\ active' = r.active
        /\ tabThrew' = r.threw
        /\ UNCHANGED <<variant, region, inflight, timers, submits, posts,
                       lastHandled, nHandled, escaped>>

\* The handler ends: the response (or its absence) has been dealt with.
EndHandler(f, h, how, eff) ==
    /\ region' = [region EXCEPT ![f] = IF eff.write THEN eff.html ELSE @]
    /\ escaped' = [escaped EXCEPT ![f] = @ \/ eff.escaped]
    /\ inflight' = [inflight EXCEPT ![f] = @ \ {h}]
    /\ lastHandled' = [lastHandled EXCEPT ![f] = Handled(h.seq, how, h.resp)]
    /\ nHandled' = [nHandled EXCEPT ![f] = @ + 1]

\* catch (error) of templates/script.js: the simulation is scheduled with
\* setTimeout and the handler ends with the region unchanged.
TemplatesCatch(f, h, how, resp) ==
    /\ timers' = [timers EXCEPT ![f] = Append(@, h.data)]
    /\ inflight' = [inflight EXCEPT ![f] = @ \ {h}]
    /\ lastHandled' = [lastHandled EXCEPT ![f] = Handled(h.seq, how, resp)]
    /\ nHandled' = [nHandled EXCEPT ![f] = @ + 1]
    /\ UNCHANGED <<region, escaped>>

\* Fault variant of the submit event: a new submission aborts the requests
\* of the same form that are still in flight.
SubmitAbortsPrevious(f, data, file) ==
    /\ submits["manual"] + submits["csv"] < MaxSubmits
    /\ submits' = [submits EXCEPT ![f] = @ + 1]
    /\ region' = [region EXCEPT ![f] = Loading(f)]
    /\ inflight' = [inflight EXCEPT
                        ![f] = {Handler(submits[f] + 1, "fetch", NoResponse,
                                        IF variant = "templates" THEN data ELSE NoData,
                                        file)}]
    /\ posts' = [posts EXCEPT ![f] = @ + 1]
    /\ UNCHANGED <<variant, active, tabThrew, timers, escaped, lastHandled, nHandled>>

\* The submit event of cancerForm (f = "manual") or csvForm (f = "csv"), up
\* to the first await.  The form values are kept with the handler only where
\* it reads them again after the fetch (templates' simulatePrediction).
Submit(f, data, file) ==
    /\ submits["manual"] + submits["csv"] < MaxSubmits
    /\ submits' = [submits EXCEPT ![f] = @ + 1]
    /\ IF variant = "static" /\ f = "csv" /\ NotFile(file)
       THEN /\ region' = [region EXCEPT ![f] = NoFileError]
            /\ lastHandled' = [lastHandled EXCEPT
                                   ![f] = Handled(submits[f] + 1, "nofile", NoResponse)]
            /\ nHandled' = [nHandled EXCEPT ![f] = @ + 1]
            /\ UNCHANGED <<inflight, posts>>
       ELSE /\ region' = [region EXCEPT ![f] = Loading(f)]
            /\ inflight' = [inflight EXCEPT
                                ![f] = @ \cup {Handler(submits[f] + 1, "fetch", NoResponse,
                                        IF variant = "templates" THEN data ELSE NoData,
                                        file)}]
            /\ posts' = [posts EXCEPT ![f] = @ + 1]
            /\ UNCHANGED <<lastHandled, nHandled>>
    /\ UNCHANGED <<variant, active, tabThrew, timers, escaped>>

SubmitManual == \E data \in FormChoices : Submit("manual", data, "none")
SubmitCsv == \E file \in FileEntries : Submit("csv", NoData, file)

\* fetch(...) rejects: the request did not get a response.
FetchReject(f) ==
    \E h \in inflight[f] :
        /\ h.pc = "fetch"
        /\ IF variant = "static"
           THEN EndHandler(f, h, "fetchRejected", StaticTryCatch(Throw(FetchFailure)))
                /\ UNCHANGED timers
           ELSE TemplatesCatch(f, h, "fetchRejected", h.resp)
        /\ UNCHANGED <<variant, active, tabThrew, submits, posts>>

\* fetch(...) resolves with a response: static reads the body whatever the
\* status, templates reads it when ok and throws otherwise.
FetchResolve(f) ==
    \E h \in inflight[f], resp \in Responses(f) :
        /\ h.pc = "fetch"
        /\ IF variant = "static" \/ ResponseOk(resp)
           THEN /\ inflight' = [inflight EXCEPT
                        ![f] = (@ \ {h}) \cup {[h EXCEPT !.pc = "body", !.resp = resp]}]
                /\ UNCHANGED <<region, timers, lastHandled, nHandled, escaped>>
           ELSE TemplatesCatch(f, h, "received", resp)
        /\ UNCHANGED <<variant, active, tabThrew, submits, posts>>

\* response.text() / response.json() rejects: the body could not be read.
BodyReject(f) ==
    \E h \in inflight[f] :
        /\ h.pc = "body"
        /\ IF variant = "static"
           THEN EndHandler(f, h, "bodyRejected", StaticTryCatch(Throw(ReadFailure)))
                /\ UNCHANGED timers
           ELSE TemplatesCatch(f, h, "bodyRejected", h.resp)
        /\ UNCHANGED <<variant, active, tabThrew, submits, posts>>

\* response.text() / response.json() resolves: the rest of the try block
\* runs, and the catch block if it throws.
BodyResolve(f) ==
    \E h \in inflight[f], rnd \in RandomConfidence :
        /\ h.pc = "body"
        /\ IF variant = "static"
           THEN EndHandler(f, h, "received", StaticOnBody(f, h.resp, h.resp.body))
                /\ UNCHANGED timers
           ELSE LET p == JSONParse(h.resp.body)
                    r == TemplatesTry(f, p.value, rnd)
                IN  IF p.ok /\ ~r.threw
                    THEN EndHandler(f, h, "received", Effect(r.html)) /\ UNCHANGED timers
                    ELSE TemplatesCatch(f, h, "received", h.resp)
        /\ UNCHANGED <<variant, active, tabThrew, submits, posts>>

\* The setTimeout callback of simulatePrediction / simulateCSVPrediction.
TimerFire(f) ==
    \E rnd \in SimulatedConfidence :
        /\ timers[f] # <<>>
        /\ region' = [region EXCEPT
                ![f] = IF f = "manual" THEN SimulatePrediction(Head(timers[f]), rnd)
                       ELSE SimulateCSVPrediction]
        /\ timers' = [timers EXCEPT ![f] = Tail(@)]
        /\ UNCHANGED <<variant, active, tabThrew, inflight, submits, posts,
                       lastHandled, nHandled, escaped>>

\* The steps of the request flows: submissions, settling promises, timers.
RequestNext ==
    \/ SubmitManual
    \/ SubmitCsv
    \/ \E f \in Flows : FetchReject(f)
    \/ \E f \in Flows : FetchResolve(f)
    \/ \E f \in Flows : BodyReject(f)
    \/ \E f \in Flows : BodyResolve(f)
    \/ \E f \in Flows : TimerFire(f)

Next ==
    \/ \E btn \in TabBtns, tabName \in TabNames : OpenTab(btn, tabName)
    \/ RequestNext

Spec == Init /\ [][Next]_vars

\* A promise settling or a timer firing: the steps the browser takes on its
\* own.
Settle ==
    \E f \in Flows :
        FetchReject(f) \/ FetchResolve(f) \/ BodyReject(f) \/ BodyResolve(f) \/ TimerFire(f)

\* While a fetch or a body read is pending or a timer is set, one of them
\* eventually settles or fires.
Fairness == WF_vars(Settle)

\* The request flows under that fairness.  Tab clicks are left out: openTab
\* reads and writes only the "active" classes, which no handler touches.
FairSpec == Init /\ [][RequestNext]_vars /\ Fairness

\* ------------------------------------------------------------------------
\* Properties

IsErrorHtml(html) == StartsWith(html, "<div class=\"error\">")

\* A rendering of a classification: the single result box or the batch table.
IsPredictionHtml(html) ==
    Includes(html, "<div class=\"result ") \/ Includes(html, "<div class=\"csv-results\">")

\* A classification is on display: the single result box, or a row of the
\* batch table.
ShowsClassification(html) ==
    Includes(html, "<div class=\"result ") \/ Includes(html, "<td class=\"")

\* The handler of flow f that ended last has its writing on display: no later
\* submission has replaced it with the loading indicator.
OnDisplay(f) == lastHandled[f].how # "none" /\ region[f] # Loading(f)

\* The last handler of flow f read a body under a success status.
GotOkBody(f) ==
    /\ OnDisplay(f)
    /\ lastHandled[f].how = "received"
    /\ ResponseOk(lastHandled[f].resp)

\* The last handler of flow f got a response with a non-success status.
GotErrorStatus(f) ==
    /\ OnDisplay(f)
    /\ lastHandled[f].how \in {"received", "bodyRejected"}
    /\ ~ResponseOk(lastHandled[f].resp)

\* The error message of a non-success status: status code and body text, the
\* status text when the body is empty.
ShowsStatusAndBody(html, resp) ==
    /\ IsErrorHtml(html)
    /\ Includes(html, "(" \o ToString(resp.status) \o ")")
    /\ Includes(html, IF resp.body # "" THEN resp.body ELSE resp.statusText)

\* C1 as stated: in the single-record flow of static/script.js a failed
\* request (fetch rejected, or a non-success status) ends with an error
\* message and never a prediction, no exception escapes, and for EVERY
\* non-success status the message holds the status code and the body text.
C1_AsStated ==
    variant = "static" =>
        /\ ~escaped["manual"]
        /\ (OnDisplay("manual") /\ lastHandled["manual"].how = "fetchRejected")
            => (IsErrorHtml(region["manual"]) /\ ~IsPredictionHtml(region["manual"]))
        /\ GotErrorStatus("manual")
            => (/\ ShowsStatusAndBody(region["manual"], lastHandled["manual"].resp)
                /\ ~IsPredictionHtml(region["manual"]))

\* C1 amended: as C1, but the message holds the status code and the body text
\* when the body read resolved; when the body read itself rejects, the
\* handler still ends with an error message (the connection error) and no
\* prediction.
C1_FailedRequestEndsWithError ==
    variant = "static" =>
        /\ ~escaped["manual"]
        /\ (OnDisplay("manual") /\ lastHandled["manual"].how = "fetchRejected")
            => (IsErrorHtml(region["manual"]) /\ ~IsPredictionHtml(region["manual"]))
        /\ GotErrorStatus("manual")
            => (/\ IsErrorHtml(region["manual"])
                /\ ~IsPredictionHtml(region["manual"])
                /\ lastHandled["manual"].how = "received"
                    => ShowsStatusAndBody(region["manual"], lastHandled["manual"].resp)
                /\ lastHandled["manual"].how = "bodyRejected"
                    => region["manual"] = ErrorDiv("Connection error: " \o ReadFailure))

\* A 500 whose body is a prediction document was shown verbatim as a server
\* error.
C1_Witness ==
    /\ variant = "static"
    /\ GotErrorStatus("manual")
    /\ lastHandled["manual"].how = "received"
    /\ lastHandled["manual"].resp.body = BenignBody
    /\ region["manual"] =
          "<div class=\"error\">Server Error (500): " \o BenignBody \o "</div>"

\* C2: under a success status, an empty body gives the empty-response error
\* and never a parse error; a non-empty body that is not JSON gives the
\* invalid-JSON error with the first (at most 100) characters of the text and
\* nothing beyond them; either way an error is shown and no prediction.
C2_EmptyAndMalformedBodies ==
    variant = "static" =>
        \A f \in Flows :
            GotOkBody(f) =>
                LET text == lastHandled[f].resp.body
                    html == region[f]
                IN  /\ text = "" =>
                          /\ html = ErrorDiv("Connection error: Server returned empty response")
                          /\ ~Includes(html, "Invalid JSON")
                    /\ (text # "" /\ ~JSONParse(text).ok) =>
                          /\ IsErrorHtml(html)
                          /\ ~IsPredictionHtml(html)
                          /\ \E k \in 0..100 :
                                /\ k = Min(Len(text), 100)
                                /\ Includes(html, "Invalid JSON response: "
                                                  \o SubSeq(text, 1, k) \o "...")
                                /\ Len(text) > k => ~Includes(html, SubSeq(text, 1, k + 1))

\* An over-long page was cut to its first 100 characters in the single-record
\* region while the batch region shows the empty-response error.
C2_Witness ==
    /\ variant = "static"
    /\ GotOkBody("manual")
    /\ lastHandled["manual"].resp.body = LongBody
    /\ Len(LongBody) > 100
    /\ Includes(region["manual"], SubSeq(LongBody, 1, 100) \o "...")
    /\ GotOkBody("csv")
    /\ lastHandled["csv"].resp.body = EmptyBody
    /\ Includes(region["csv"], "Server returned empty response")

\* C3 as stated: in the batch flow, every parsed response value whose
\* predictions field is absent or not a sequence (JSON null included) is
\* reported as the format error and as nothing else.
C3_AsStated ==
    (variant = "static" /\ GotOkBody("csv") /\ JSONParse(lastHandled["csv"].resp.body).ok
     /\ JSONParse(lastHandled["csv"].resp.body).value.predictionsKind # "array")
        => region["csv"] = ErrorDiv("Unexpected response format")

\* C4 as stated: a submission of the CSV form with no file chosen (its file
\* entry is the empty File) shows 'No file selected' and issues no POST, so
\* no request of such a submission is ever in flight.
C4_AsStated ==
    variant = "static" => \A h \in inflight["csv"] : h.file # "empty"

\* C5 as stated: after any sequence of openTab calls exactly one tab panel and
\* exactly one tab button are active.
C5_AsStated ==
    /\ Cardinality(active \cap TabContents) = 1
    /\ Cardinality(active \cap TabBtns) = 1

\* C6 as stated: openTab with an id that names no tab leaves the active panels
\* and buttons as they were and raises no error.
C6_AsStated ==
    [][\A btn \in TabBtns, tabName \in TabNames \ TabContents :
            OpenTab(btn, tabName) => (active' = active /\ ~tabThrew')]_vars

\* What the handler that ended last in flow f wrote (static/script.js).
RenderingOf(f, h) ==
    CASE h.how = "nofile" -> NoFileError
      [] h.how = "fetchRejected" -> ErrorDiv("Connection error: " \o FetchFailure)
      [] h.how = "bodyRejected" -> ErrorDiv("Connection error: " \o ReadFailure)
      [] OTHER -> StaticOnBody(f, h.resp, h.resp.body).html

Other(f) == IF f = "manual" THEN "csv" ELSE "manual"

C7_LastArrivalShown ==
    variant = "static" =>
        \A f \in Flows :
            /\ Cardinality(inflight[f]) + nHandled[f] = submits[f]
            /\ (inflight[f] = {} /\ nHandled[f] > 0)
                => region[f] = RenderingOf(f, lastHandled[f])

C7_SubmitStep ==
    variant = "static" =>
        \A f \in Flows :
            submits'[f] > submits[f] =>
                /\ region'[Other(f)] = region[Other(f)]
                /\ inflight[f] \subseteq inflight'[f]

\* C7: a second submission of a form leaves the first request in flight and
\* adds its own (every submission is in flight or has been handled); once
\* none is in flight the region shows what the handler that ended last wrote,
\* whichever submission it belongs to; a submission never touches the other
\* form's region.
C7_LastResponseWins == []C7_LastArrivalShown /\ [][C7_SubmitStep]_vars

\* Two submissions of the single-record form were in flight together; the
\* second was answered first (a failure), the first last, and the prediction
\* of the first is what the region shows.
C7_Witness ==
    /\ variant = "static"
    /\ submits["manual"] = 2
    /\ nHandled["manual"] = 2
    /\ inflight["manual"] = {}
    /\ lastHandled["manual"].seq = 1
    /\ lastHandled["manual"].resp.body = BenignBody
    /\ ResponseOk(lastHandled["manual"].resp)
    /\ IsPredictionHtml(region["manual"])

\* C8 as stated: for a rendered batch with at least one prediction, each
\* label's line shows the count given in the response whenever the field is
\* present (0 included), else the number of predictions of that label, and
\* that count as a percentage of the number of predictions.
C8_AsStated ==
    (variant = "static" /\ GotOkBody("csv") /\ IsPredictionHtml(region["csv"])
     /\ JSONParse(lastHandled["csv"].resp.body).value.predictions # <<>>)
        => LET result == JSONParse(lastHandled["csv"].resp.body).value
               n == Len(result.predictions)
               benign == IF result.benign_count # Absent THEN result.benign_count
                         ELSE CountLabel(result.predictions, "benign")
               malignant == IF result.malignant_count # Absent THEN result.malignant_count
                            ELSE CountLabel(result.predictions, "malignant")
           IN  /\ Includes(region["csv"], "Benign: " \o ToString(benign) \o " samples ("
                                          \o PercentStr(benign, n) \o "%)")
               /\ Includes(region["csv"], "Malignant: " \o ToString(malignant)
                                          \o " samples (" \o PercentStr(malignant, n) \o "%)")

\* The labels a parsed response value carries.
LabelsOf(value) ==
    {value.prediction} \cup {value.predictions[i].prediction : i \in 1..Len(value.predictions)}

\* The region of flow f shows a classification that the last handled
\* response of that flow carried under a success status.
ShownLabelWasServed(f) ==
    /\ lastHandled[f].how = "received"
    /\ ResponseOk(lastHandled[f].resp)
    /\ JSONParse(lastHandled[f].resp.body).ok
    /\ \E label \in LabelsOf(JSONParse(lastHandled[f].resp.body).value) \ {NoString} :
            \/ Includes(region[f], "<strong>" \o label \o "</strong>")
            \/ Includes(region[f], "<strong>" \o ToUpperCase(label) \o "</strong>")
            \/ Includes(region[f], "\">" \o label \o "</td>")

C10_EverySubmissionTerminates ==
    /\ [](\A f \in Flows : posts[f] <= submits[f])
    /\ \A f \in Flows :
          (region[f] = Loading(f)) ~>
              (region[f] # Loading(f)
               /\ (IsErrorHtml(region[f]) \/ IsPredictionHtml(region[f])))

\* The renderer threw on a response without a prediction field and the
\* handler showed the error instead of the loading indicator.
C10_Witness ==
    /\ variant = "static"
    /\ GotOkBody("manual")
    /\ lastHandled["manual"].resp.body = EmptyObjectBody
    /\ posts["manual"] = 1
    /\ region["manual"] = ErrorDiv("Connection error: Cannot read properties of "
                                   \o "undefined (reading 'toLowerCase')")

====
